---- MODULE Spec2Model ----
(***************************************************************************)
(* Model of etframes.py: Tufte range frames and dot-dash plots on top of   *)
(* a matplotlib Axes.                                                      *)
(*                                                                         *)
(* Coordinates are floats in the source.  The model places them on an      *)
(* integer grid whose unit is the default pad of adjust_ticks_to_bounds    *)
(* (1e-5), so that "closer than pad", "exactly pad away" and "further      *)
(* than pad" are all representable.  Arrays (numpy arrays, tick lists)     *)
(* are sequences.  Python's None is the empty sequence NoneVal and a       *)
(* present optional value v is <<v>>.                                      *)
(***************************************************************************)
EXTENDS Integers, Sequences, FiniteSets, TLC

VARIABLES axes, hist, call

vars == <<axes, hist, call>>

\* Largest coordinate of the grid: coordinates are 0..MaxVal.
MaxVal == 4
\* Longest list of ticks handed to adjust_ticks_to_bounds on its own.
MaxTicks == 2
\* Largest pad handed to adjust_ticks_to_bounds on its own.
MaxPad == 1
\* pad=1e-5, the default of adjust_ticks_to_bounds, is the unit of the grid.
DefaultPad == 1

Values == 0..MaxVal

NoneVal == <<>>
Some(v) == <<v>>
IsNone(o) == o = NoneVal
Opt(S) == {NoneVal} \cup {Some(v) : v \in S}

Range(s) == {s[i] : i \in 1..Len(s)}

\* All lists over S of length at most n.
ListsUpTo(S, n) == UNION {[1..k -> S] : k \in 0..n}

\* numpy's ndarray.min() / ndarray.max() on a non-empty array.
ArrayMin(a) == CHOOSE m \in Range(a) : \A v \in Range(a) : m <= v
ArrayMax(a) == CHOOSE m \in Range(a) : \A v \in Range(a) : m >= v

\* Python's builtin max(a, b) / min(a, b).
PyMax(a, b) == IF b > a THEN b ELSE a
PyMin(a, b) == IF b < a THEN b ELSE a

(***************************************************************************)
(* adjust_ticks_to_bounds                                                  *)
(***************************************************************************)

InboundSelection_strict(ticks, bounds, pad) ==
    SelectSeq(ticks, LAMBDA t : (bounds[1] - pad < t) /\ (bounds[2] + pad > t))

\* ticks[(bounds[0] - pad <= ticks) & (bounds[1] + pad >= ticks)]:
\* boolean-mask indexing keeps the selected entries in their order.
InboundSelection(ticks, bounds, pad) ==
    SelectSeq(ticks, LAMBDA t : (bounds[1] - pad <= t) /\ (bounds[2] + pad >= t))

OutboundTicks_flagless(inbound_ticks, bounds, pad, show_data_min, show_data_max) ==
    LET wants_min == show_data_min \/ show_data_max
        wants_max == show_data_min \/ show_data_max
        raise1 == wants_min /\ inbound_ticks = <<>>
        out1 == IF wants_min /\ ~raise1 /\ bounds[1] + pad < ArrayMin(inbound_ticks)
                THEN <<bounds[1]>> ELSE <<>>
        raise2 == ~raise1 /\ wants_max /\ inbound_ticks = <<>>
        out2 == IF wants_max /\ ~raise1 /\ ~raise2
                   /\ bounds[2] - pad > ArrayMax(inbound_ticks)
                THEN Append(out1, bounds[2]) ELSE out1
    IN  [raised |-> raise1 \/ raise2, ticks |-> out2]

\* Lines 42-46.  `and` short-circuits, so inbound_ticks.min() is evaluated
\* only when show_data_min is true (and .max() only when show_data_max is);
\* on an empty array either raises ValueError and nothing is returned.
OutboundTicks(inbound_ticks, bounds, pad, show_data_min, show_data_max) ==
    LET raise1 == show_data_min /\ inbound_ticks = <<>>
        out1 == IF show_data_min /\ ~raise1
                   /\ bounds[1] + pad < ArrayMin(inbound_ticks)
                THEN <<bounds[1]>> ELSE <<>>
        raise2 == ~raise1 /\ show_data_max /\ inbound_ticks = <<>>
        out2 == IF show_data_max /\ ~raise1 /\ ~raise2
                   /\ bounds[2] - pad > ArrayMax(inbound_ticks)
                THEN Append(out1, bounds[2]) ELSE out1
    IN  [raised |-> raise1 \/ raise2, ticks |-> out2]

\* The whole function.  The tick lists the library hands over are arrays, so
\* the TypeError branch of lines 35-40 is taken at most for an empty
\* non-array list, where it yields the same empty selection.
adjust_ticks_to_bounds(ticks, minor_ticks, bounds, pad, show_data_min, show_data_max) ==
    LET inbound_ticks == InboundSelection(ticks, bounds, pad)
        inbound_minor_ticks == InboundSelection(minor_ticks, bounds, pad)
        outbound == OutboundTicks(inbound_ticks, bounds, pad,
                                  show_data_min, show_data_max)
    IN  [raised |-> outbound.raised,
         inbound_ticks |-> inbound_ticks,
         outbound_ticks |-> outbound.ticks,
         inbound_minor_ticks |-> inbound_minor_ticks]

(***************************************************************************)
(* axis_data_bounds                                                        *)
(***************************************************************************)

UserOrData_swapped(user_bounds, data_bounds) ==
    IF IsNone(user_bounds)
    THEN data_bounds
    ELSE <<IF IsNone(user_bounds[1]) THEN data_bounds[2] ELSE user_bounds[1][1],
           IF IsNone(user_bounds[2]) THEN data_bounds[1] ELSE user_bounds[2][1]>>

\* Lines 146-154: the user's bounds, missing values completed from the data.
UserOrData(user_bounds, data_bounds) ==
    IF IsNone(user_bounds)
    THEN data_bounds
    ELSE <<IF IsNone(user_bounds[1]) THEN data_bounds[1] ELSE user_bounds[1][1],
           IF IsNone(user_bounds[2]) THEN data_bounds[2] ELSE user_bounds[2][1]>>

\* Lines 157-161: vmin is raised to the lower display limit and vmax lowered
\* to the upper one; neither is compared with the opposite limit.
ClampToDisplay(v, axis_display_limits) ==
    LET axis_vmin == axis_display_limits[1]
        axis_vmax == axis_display_limits[2]
    IN  <<IF IsNone(axis_vmin) THEN v[1] ELSE PyMax(v[1], axis_vmin[1]),
          IF IsNone(axis_vmax) THEN v[2] ELSE PyMin(v[2], axis_vmax[1])>>

axis_data_bounds(user_bounds, data_bounds, axis_display_limits) ==
    ClampToDisplay(UserOrData(user_bounds, data_bounds), axis_display_limits)

\* axes_data_bound: both axes, from the Axes' data limits and view limits.
axes_data_bound(ax, xbounds, ybounds) ==
    LET x == axis_data_bounds(xbounds, ax.dataLim.intervalx,
                              <<Some(ax.xlim[1]), Some(ax.xlim[2])>>)
        y == axis_data_bounds(ybounds, ax.dataLim.intervaly,
                              <<Some(ax.ylim[1]), Some(ax.ylim[2])>>)
    IN  [xmin |-> x[1], xmax |-> x[2], ymin |-> y[1], ymax |-> y[2]]

(***************************************************************************)
(* The Axes object and the operations that decorate it                     *)
(***************************************************************************)

\* axes.set_frame_on(False); xaxis.tick_bottom(); yaxis.tick_left()
cleanframe_and_ticks(ax) ==
    [ax EXCEPT !.frame_on = FALSE,
               !.xticks_position = "bottom",
               !.yticks_position = "left"]

\* tick_params(axis=axis_name, which='minor', ...) restyles the minor ticks
\* of the named axis; the loop of lines 60-62 copies the major formatter to
\* the minor ticks of both axes.
set_tick_for_data_bounds(ax, axis_name) ==
    [ax EXCEPT !.minor_style[axis_name] = "as_major_transparent",
               !.minor_formatter = [a \in {"x", "y"} |-> "major"]]

\* axes.set_xticks(ticks) / axes.set_xticks(ticks, minor=True): the axis gets
\* a fixed locator at exactly these positions.
set_ticks(ax, axis_name, ticks, minor) ==
    IF minor THEN [ax EXCEPT !.minor[axis_name] = ticks]
             ELSE [ax EXCEPT !.major[axis_name] = ticks]

MinorTicksFor_always_bound(ax, axis_name, adj, show_min, show_max) ==
    set_ticks(set_tick_for_data_bounds(ax, axis_name),
              axis_name, adj.outbound_ticks, TRUE)

MinorTicksFor_keep_previous(ax, axis_name, adj, show_min, show_max) ==
    IF show_min \/ show_max
    THEN set_ticks(set_tick_for_data_bounds(ax, axis_name),
                   axis_name, adj.inbound_minor_ticks \o adj.outbound_ticks, TRUE)
    ELSE set_ticks(ax, axis_name, adj.inbound_minor_ticks, TRUE)

\* Lines 82-86 (x) and 87-91 (y).
MinorTicksFor(ax, axis_name, adj, show_min, show_max) ==
    IF show_min \/ show_max
    THEN set_ticks(set_tick_for_data_bounds(ax, axis_name),
                   axis_name, adj.outbound_ticks, TRUE)
    ELSE set_ticks(ax, axis_name, adj.inbound_minor_ticks, TRUE)

\* add_range_ticks.  Both adjust_ticks_to_bounds calls come before the first
\* set_xticks, so a ValueError from either leaves every tick as it was.
add_range_ticks(ax, xbounds, ybounds, show_x_min, show_x_max, show_y_min, show_y_max) ==
    LET ax1 == [ax EXCEPT !.tick_direction = "out"]
        x == adjust_ticks_to_bounds(ax1.major["x"], ax1.minor["x"], xbounds,
                                    DefaultPad, show_x_min, show_x_max)
        y == adjust_ticks_to_bounds(ax1.major["y"], ax1.minor["y"], ybounds,
                                    DefaultPad, show_y_min, show_y_max)
        ax2 == set_ticks(ax1, "x", x.inbound_ticks, FALSE)
        ax3 == set_ticks(ax2, "y", y.inbound_ticks, FALSE)
        ax4 == MinorTicksFor(ax3, "x", x, show_x_min, show_x_max)
        ax5 == MinorTicksFor(ax4, "y", y, show_y_min, show_y_max)
    IN  IF x.raised \/ y.raised
        THEN [raised |-> TRUE, axes |-> ax1]
        ELSE [raised |-> FALSE, axes |-> ax5]

\* trans = transData + transAxes.inverted() on a linear axis: the position of
\* v as a fraction of the view interval, kept as <<numerator, denominator>>.
DataToAxes(v, lim) == <<v - lim[1], lim[2] - lim[1]>>

\* add_range_frame: the artist is added and the frame cleaned before the
\* ticks are adjusted, so both survive a ValueError raised by the latter.
add_range_frame(ax, xbounds, ybounds, show_x_min, show_x_max, show_y_min, show_y_max) ==
    LET b == axes_data_bound(ax, xbounds, ybounds)
        artist == [xbounds |-> <<DataToAxes(b.xmin, ax.xlim), DataToAxes(b.xmax, ax.xlim)>>,
                   ybounds |-> <<DataToAxes(b.ymin, ax.ylim), DataToAxes(b.ymax, ax.ylim)>>]
        ax1 == [ax EXCEPT !.artists = Append(@, artist)]
        ax2 == cleanframe_and_ticks(ax1)
    IN  add_range_ticks(ax2, <<b.xmin, b.xmax>>, <<b.ymin, b.ymax>>,
                        show_x_min, show_x_max, show_y_min, show_y_max)

SetMinorLocator_append(ax, axis_name, coords) ==
    IF IsNone(coords) THEN ax
    ELSE [ax EXCEPT !.minor[axis_name] = @ \o coords[1]]

\* axis.set_minor_locator(FixedLocator(coords)) when coords is not None.
SetMinorLocator(ax, axis_name, coords) ==
    IF IsNone(coords) THEN ax
    ELSE [ax EXCEPT !.minor[axis_name] = coords[1]]

add_dot_dash_plot(ax, xs, ys) ==
    cleanframe_and_ticks(SetMinorLocator(SetMinorLocator(ax, "x", xs), "y", ys))

(***************************************************************************)
(* State.                                                                  *)
(*   axes  the matplotlib Axes being decorated                             *)
(*   hist  the decorating calls made on it so far, each with its           *)
(*         arguments, whether it raised, and the Axes it found             *)
(*   call  a direct call of one of the two pure helpers: its arguments,    *)
(*         and once it has run its outcome                                 *)
(***************************************************************************)

\* Major ticks as the library's locators place them: evenly spaced.
LibraryTicks == {<<0, 2, 4>>, <<0, 4>>, <<2>>}

\* A fresh Axes after plotting: full frame, ticks on all sides, no minor
\* ticks, view limits around the data.
FreshAxes(xticks, yticks) ==
    [major |-> [a \in {"x", "y"} |-> IF a = "x" THEN xticks ELSE yticks],
     minor |-> [a \in {"x", "y"} |-> <<>>],
     frame_on |-> TRUE,
     xticks_position |-> "both",
     yticks_position |-> "both",
     tick_direction |-> "in",
     minor_style |-> [a \in {"x", "y"} |-> "default"],
     minor_formatter |-> [a \in {"x", "y"} |-> "null"],
     dataLim |-> [intervalx |-> <<1, MaxVal - 1>>, intervaly |-> <<1, MaxVal - 1>>],
     xlim |-> <<0, MaxVal>>,
     ylim |-> <<0, MaxVal>>,
     artists |-> <<>>]

NoCall == [fn |-> "none"]

\* xbounds / ybounds arguments of add_range_frame.
FrameBounds ==
    {NoneVal,
     <<Some(0), Some(MaxVal)>>,
     <<Some(0), Some(2)>>,
     <<Some(MaxVal - 1), NoneVal>>,
     <<NoneVal, Some(MaxVal)>>,
     <<Some(MaxVal), Some(MaxVal)>>}

\* xs / ys arguments of add_dot_dash_plot: None or a list of data coordinates.
DotCoords ==
    {NoneVal, Some(<<3, 1>>), Some(<<0, MaxVal>>), Some(<<2, 2, MaxVal + 1>>)}

Applied(op) == \E i \in 1..Len(hist) : hist[i].op = op

Init ==
    /\ \E xticks \in LibraryTicks, yticks \in LibraryTicks :
          axes = FreshAxes(xticks, yticks)
    /\ hist = <<>>
    /\ call = NoCall

\* A script decorates its Axes with each style at most once.
AddRangeFrame ==
    /\ ~Applied("add_range_frame")
    /\ \E xbounds \in FrameBounds, ybounds \in FrameBounds,
          show_x_min \in BOOLEAN, show_x_max \in BOOLEAN,
          show_y_min \in BOOLEAN, show_y_max \in BOOLEAN :
          LET r == add_range_frame(axes, xbounds, ybounds,
                                   show_x_min, show_x_max, show_y_min, show_y_max)
              b == axes_data_bound(axes, xbounds, ybounds)
          IN  /\ axes' = r.axes
              /\ hist' = Append(hist,
                    [op |-> "add_range_frame",
                     xbounds |-> xbounds, ybounds |-> ybounds,
                     bounds |-> [x |-> <<b.xmin, b.xmax>>, y |-> <<b.ymin, b.ymax>>],
                     show |-> [x |-> <<show_x_min, show_x_max>>,
                               y |-> <<show_y_min, show_y_max>>],
                     raised |-> r.raised,
                     pre |-> axes])
    /\ UNCHANGED call

AddDotDashPlot ==
    /\ ~Applied("add_dot_dash_plot")
    /\ \E xs \in DotCoords, ys \in DotCoords :
          /\ axes' = add_dot_dash_plot(axes, xs, ys)
          /\ hist' = Append(hist,
                [op |-> "add_dot_dash_plot", xs |-> xs, ys |-> ys,
                 raised |-> FALSE, pre |-> axes])
    /\ UNCHANGED call

Next == AddRangeFrame \/ AddDotDashPlot

Spec == Init /\ [][Next]_vars

(***************************************************************************)
(* adjust_ticks_to_bounds called on its own, on every input of the grid    *)
(***************************************************************************)

TickLists == ListsUpTo(Values, MaxTicks)
MinorTickLists == ListsUpTo(Values, 1)

InitAdjust ==
    /\ axes = FreshAxes(<<2>>, <<2>>)
    /\ hist = <<>>
    /\ \E ticks \in TickLists, minor_ticks \in MinorTickLists,
          b0 \in Values, b1 \in Values, pad \in 0..MaxPad,
          show_data_min \in BOOLEAN, show_data_max \in BOOLEAN :
          call = [fn |-> "adjust_ticks_to_bounds",
                  ticks |-> ticks, minor_ticks |-> minor_ticks,
                  bounds |-> <<b0, b1>>, pad |-> pad,
                  show_data_min |-> show_data_min,
                  show_data_max |-> show_data_max,
                  status |-> "pending",
                  ret |-> <<>>]

RunAdjust ==
    /\ call.fn = "adjust_ticks_to_bounds"
    /\ call.status = "pending"
    /\ LET r == adjust_ticks_to_bounds(call.ticks, call.minor_ticks, call.bounds,
                                       call.pad, call.show_data_min, call.show_data_max)
       IN  call' = IF r.raised
                   THEN [call EXCEPT !.status = "ValueError"]
                   ELSE [call EXCEPT !.status = "returned",
                                     !.ret = <<r.inbound_ticks, r.outbound_ticks,
                                               r.inbound_minor_ticks>>]
    /\ UNCHANGED <<axes, hist>>

NextAdjust == RunAdjust

SpecAdjust == InitAdjust /\ [][NextAdjust]_vars

(***************************************************************************)
(* axis_data_bounds called on its own, on every input of the grid          *)
(***************************************************************************)

UserBounds == {NoneVal} \cup (Opt(Values) \X Opt(Values))

InitBounds ==
    /\ axes = FreshAxes(<<2>>, <<2>>)
    /\ hist = <<>>
    /\ \E user_bounds \in UserBounds, data_bounds \in Values \X Values,
          axis_display_limits \in Opt(Values) \X Opt(Values) :
          call = [fn |-> "axis_data_bounds",
                  user_bounds |-> user_bounds,
                  data_bounds |-> data_bounds,
                  axis_display_limits |-> axis_display_limits,
                  status |-> "pending",
                  ret |-> <<>>]

RunBounds ==
    /\ call.fn = "axis_data_bounds"
    /\ call.status = "pending"
    /\ call' = [call EXCEPT !.status = "returned",
                            !.ret = axis_data_bounds(call.user_bounds, call.data_bounds,
                                                     call.axis_display_limits)]
    /\ UNCHANGED <<axes, hist>>

NextBounds == RunBounds

SpecBounds == InitBounds /\ [][NextBounds]_vars

(***************************************************************************)
(* Properties                                                              *)
(***************************************************************************)

Count(s, v) == Cardinality({i \in 1..Len(s) : s[i] = v})

IsSubSeq(s, t) ==
    \E f \in [1..Len(s) -> 1..Len(t)] :
        /\ \A i \in 1..Len(s) : s[i] = t[f[i]]
        /\ \A i \in 1..Len(s), j \in 1..Len(s) : i < j => f[i] < f[j]

\* kept holds exactly the entries of ticks lying in [lo, hi], in their order.
KeepsExactly(kept, ticks, lo, hi) ==
    /\ \A v \in Range(kept) : lo <= v /\ v <= hi
    /\ \A v \in Range(ticks) : (lo <= v /\ v <= hi) => Count(kept, v) = Count(ticks, v)
    /\ IsSubSeq(kept, ticks)

\* marks is the list of boundary ticks the flags ask for at bounds b, given
\* the in-bound major ticks: the minimum, then the maximum, each at most once.
IsBoundaryList(marks, inbound, b, pad, show_min, show_max) ==
    /\ Range(marks) \subseteq {b[1], b[2]}
    /\ Len(marks) = Cardinality(Range(marks))
    /\ Len(marks) = 2 => marks = <<b[1], b[2]>>
    /\ ~show_min => b[1] \notin Range(marks)
    /\ ~show_max => b[2] \notin Range(marks)
    /\ show_min => (b[1] \in Range(marks) <=> \A t \in Range(inbound) : b[1] + pad < t)
    /\ show_max => (b[2] \in Range(marks) <=> \A t \in Range(inbound) : b[2] - pad > t)

AdjustReturned == call.fn = "adjust_ticks_to_bounds" /\ call.status = "returned"

\* C1: the first value adjust_ticks_to_bounds returns is exactly the major
\* ticks t with b0 - pad <= t <= b1 + pad, in their original order.
C1_InboundExact ==
    AdjustReturned =>
        KeepsExactly(call.ret[1], call.ticks,
                     call.bounds[1] - call.pad, call.bounds[2] + call.pad)

\* A tick exactly pad above the maximum is kept while another tick is dropped.
C1_Witness ==
    /\ AdjustReturned
    /\ call.pad > 0
    /\ call.ret[1] = <<call.bounds[2] + call.pad>>
    /\ Len(call.ticks) = 2

Marked(b) ==
    \/ b \in Range(call.ret[2])
    \/ \E t \in Range(call.ret[1]) : t - b <= call.pad /\ b - t <= call.pad

\* C2: with both show flags true and b0 <= b1, adjust_ticks_to_bounds
\* completes, whatever the ticks, and marks both extremes: each is a boundary
\* tick or lies within pad of an in-bound major tick.
C2_BothExtremesMarked ==
    (/\ call.fn = "adjust_ticks_to_bounds"
     /\ call.status # "pending"
     /\ call.show_data_min /\ call.show_data_max
     /\ call.bounds[1] <= call.bounds[2])
    => (call.status = "returned" /\ Marked(call.bounds[1]) /\ Marked(call.bounds[2]))

\* C3: the boundary ticks are a subset of {b0, b1}, minimum first; a false
\* flag keeps its extreme out; a true flag adds its extreme exactly when it
\* is more than pad away from every in-bound major tick.
C3_FlagsControlBoundaryTicks ==
    AdjustReturned =>
        IsBoundaryList(call.ret[2], call.ret[1], call.bounds, call.pad,
                       call.show_data_min, call.show_data_max)

\* Only the minimum is asked for and added, although the maximum too is more
\* than pad away from the in-bound ticks.
C3_Witness ==
    /\ AdjustReturned
    /\ call.show_data_min /\ ~call.show_data_max
    /\ call.ret[2] = <<call.bounds[1]>>
    /\ call.ret[1] # <<>>
    /\ \A t \in Range(call.ret[1]) : call.bounds[2] - call.pad > t

BoundsReturned == call.fn = "axis_data_bounds" /\ call.status = "returned"

\* C5: for display limits (lo, hi) with lo <= hi, both values returned by
\* axis_data_bounds lie in [lo, hi].
C5_WithinDisplayLimits ==
    (/\ BoundsReturned
     /\ ~IsNone(call.axis_display_limits[1])
     /\ ~IsNone(call.axis_display_limits[2])
     /\ call.axis_display_limits[1][1] <= call.axis_display_limits[2][1])
    => LET lo == call.axis_display_limits[1][1]
           hi == call.axis_display_limits[2][1]
       IN  /\ lo <= call.ret[1] /\ call.ret[1] <= hi
           /\ lo <= call.ret[2] /\ call.ret[2] <= hi

UserSet(i) == ~IsNone(call.user_bounds) /\ ~IsNone(call.user_bounds[i])

Last == hist[Len(hist)]

RangeFrameDone ==
    hist # <<>> /\ Last.op = "add_range_frame" /\ ~Last.raised

\* C4: after add_range_ticks, on each axis: the major ticks are the in-bound
\* major ticks; with a show flag of the axis true its minor ticks are exactly
\* the boundary ticks; with both false they are exactly the previous minor
\* ticks lying in the padded interval, and no boundary tick is added.
C4_TicksAfterRangeTicks ==
    RangeFrameDone =>
        \A a \in {"x", "y"} :
            LET b == Last.bounds[a]
                show == Last.show[a]
            IN  /\ KeepsExactly(axes.major[a], Last.pre.major[a],
                                b[1] - DefaultPad, b[2] + DefaultPad)
                /\ (show[1] \/ show[2]) =>
                       IsBoundaryList(axes.minor[a], axes.major[a], b, DefaultPad,
                                      show[1], show[2])
                /\ ~(show[1] \/ show[2]) =>
                       KeepsExactly(axes.minor[a], Last.pre.minor[a],
                                    b[1] - DefaultPad, b[2] + DefaultPad)

\* On x both flags are false and the earlier minor ticks are filtered (one
\* kept, one dropped); on y a flag is true and boundary ticks replace the
\* earlier minor ticks.
C4_Witness ==
    /\ RangeFrameDone
    /\ ~Last.show["x"][1] /\ ~Last.show["x"][2]
    /\ axes.minor["x"] # <<>>
    /\ Len(axes.minor["x"]) < Len(Last.pre.minor["x"])
    /\ Last.show["y"][2]
    /\ Last.pre.minor["y"] # <<>>
    /\ axes.minor["y"] # <<>>
    /\ axes.minor["y"] # Last.pre.minor["y"]
    /\ Len(axes.major["y"]) < Len(Last.pre.major["y"])

DotDashDone == hist # <<>> /\ Last.op = "add_dot_dash_plot"

\* C7: add_dot_dash_plot sets the x (y) minor ticks to exactly xs (ys) when
\* given, leaves them unchanged when None, never changes major ticks, and
\* always turns the frame off and restricts ticks to bottom and left.
C7_DotDashEffect ==
    DotDashDone =>
        /\ axes.minor["x"] = IF IsNone(Last.xs) THEN Last.pre.minor["x"] ELSE Last.xs[1]
        /\ axes.minor["y"] = IF IsNone(Last.ys) THEN Last.pre.minor["y"] ELSE Last.ys[1]
        /\ axes.major = Last.pre.major
        /\ ~axes.frame_on
        /\ axes.xticks_position = "bottom"
        /\ axes.yticks_position = "left"

\* xs replaces boundary ticks set earlier on x, ys is None and the boundary
\* ticks set earlier on y stay.
C7_Witness ==
    /\ DotDashDone
    /\ ~IsNone(Last.xs) /\ Last.xs[1] # <<>>
    /\ Last.pre.minor["x"] # <<>>
    /\ Last.pre.minor["x"] # Last.xs[1]
    /\ IsNone(Last.ys)
    /\ Last.pre.minor["y"] # <<>>

\* The Axes a recorded call leaves when made on ax.
Redo(entry, ax) ==
    IF entry.op = "add_range_frame"
    THEN add_range_frame(ax, entry.xbounds, entry.ybounds,
                         entry.show["x"][1], entry.show["x"][2],
                         entry.show["y"][1], entry.show["y"][2]).axes
    ELSE add_dot_dash_plot(ax, entry.xs, entry.ys)

\* Both decorations were applied, neither raised.
BothApplied ==
    /\ Len(hist) = 2
    /\ ~hist[1].raised /\ ~hist[2].raised

FrameCall == IF hist[1].op = "add_range_frame" THEN hist[1] ELSE hist[2]
DotsCall == IF hist[1].op = "add_dot_dash_plot" THEN hist[1] ELSE hist[2]
DotsOf(a) == IF a = "x" THEN DotsCall.xs ELSE DotsCall.ys

\* The same two calls made in the other order on the same fresh Axes.
OtherOrder == Redo(hist[1], Redo(hist[2], hist[1].pre))

\* The boundary ticks the range frame put on axis a when it ran.
FrameMarks(a) ==
    IF hist[1].op = "add_range_frame" THEN hist[2].pre.minor[a] ELSE axes.minor[a]

\* C8 as claimed: with a show flag true, the two orders of add_range_frame
\* and add_dot_dash_plot(xs, ys) end with the same minor ticks, which hold
\* every coordinate of xs / ys and every boundary tick the frame added.
C8_OrdersAgree ==
    (/\ BothApplied
     /\ \E a \in {"x", "y"} : FrameCall.show[a][1] \/ FrameCall.show[a][2])
    => /\ axes.minor = OtherOrder.minor
       /\ \A a \in {"x", "y"} :
            /\ ~IsNone(DotsOf(a)) => Range(DotsOf(a)[1]) \subseteq Range(axes.minor[a])
            /\ (FrameCall.show[a][1] \/ FrameCall.show[a][2])
                   => Range(FrameMarks(a)) \subseteq Range(axes.minor[a])

\* C8 as amended: on an axis that both calls set (a show flag of the axis is
\* true and its coordinates are given) the call made last decides the minor
\* ticks: exactly the coordinates when add_dot_dash_plot came last, exactly
\* the boundary ticks when add_range_frame came last; so the two orders agree
\* there only when the coordinates are themselves the boundary-tick list.
C8_LastCallWins ==
    BothApplied =>
        \A a \in {"x", "y"} :
            ((FrameCall.show[a][1] \/ FrameCall.show[a][2]) /\ ~IsNone(DotsOf(a))) =>
                LET dots == DotsOf(a)[1]
                    isMarks(m) == IsBoundaryList(m, axes.major[a], FrameCall.bounds[a],
                                                 DefaultPad, FrameCall.show[a][1],
                                                 FrameCall.show[a][2])
                IN  /\ Last.op = "add_dot_dash_plot" =>
                          axes.minor[a] = dots /\ isMarks(OtherOrder.minor[a])
                    /\ Last.op = "add_range_frame" =>
                          isMarks(axes.minor[a]) /\ OtherOrder.minor[a] = dots
                    /\ (axes.minor[a] = OtherOrder.minor[a]) <=> isMarks(dots)

\* The frame came last on an axis where it adds a boundary tick and where
\* coordinates were given: they are gone, and the other order differs.
C8_Witness ==
    /\ BothApplied
    /\ Last.op = "add_range_frame"
    /\ Last.show["x"][1] /\ ~IsNone(DotsOf("x"))
    /\ axes.minor["x"] # <<>>
    /\ DotsOf("x")[1] # <<>>
    /\ axes.minor["x"] # OtherOrder.minor["x"]

====
